---- MODULE Spec2Model ----
(***************************************************************************)
(* Aircraft landing scheduling: the model builders of CP_MIP.py, MIP.py    *)
(* and CP.py, and the solve step that hands the built model to the backend.*)
(*                                                                         *)
(* A built model is data: the sequence of created variables (with their    *)
(* domains) and the sequence of posted constraints, each a linear relation *)
(* between two linear expressions, optionally reified.  The backend is the *)
(* set of all assignments that satisfy every posted constraint.            *)
(*                                                                         *)
(* Values are kept as numerators over the common denominator Scale, so     *)
(* that the NumVar(0, 1) variables of the relaxed builders can take        *)
(* fractional values; an integer n is stored as n * Scale.                 *)
(***************************************************************************)
EXTENDS Integers, Sequences, FiniteSets, TLC

VARIABLES num_planes, planes_data, separation_times, num_runways,
          pc, builder, variables, constraints, objective,
          certain_with_separation_pairs, certain_with_no_separation_pairs,
          uncertain_pairs, status, solution,
          solve_calls, report, values_read, outcome,
          f, offset, rpc, separation_row, returned

vars == <<num_planes, planes_data, separation_times, num_runways,
          pc, builder, variables, constraints, objective,
          certain_with_separation_pairs, certain_with_no_separation_pairs,
          uncertain_pairs, status, solution,
          solve_calls, report, values_read, outcome,
          f, offset, rpc, separation_row, returned>>

\* the locals of read_data besides num_planes, planes_data, separation_times:
\* the open file and the lines consumed, the point reached, the row being
\* collected, and what the call returned
reader == <<f, offset, rpc, separation_row, returned>>

problem == <<num_planes, planes_data, separation_times, num_runways>>

(* ---------------------------- bounds ---------------------------------- *)
MaxTime == 2
MaxSep == 2
MaxRunways == 2
Scale == 2

MaxPenalty == 1

PlaneCounts == {1, 2}
PenaltyValues == 0..MaxPenalty

Times == 0..MaxTime
Seps == 0..MaxSep

(* --------------------------- problem data ------------------------------ *)
Planes == 0..(num_planes - 1)
Runways == 0..(num_runways - 1)

earliest(i) == planes_data[i].earliest_landing_time
target(i) == planes_data[i].target_landing_time
latest(i) == planes_data[i].latest_landing_time

PlaneRecords ==
    [earliest_landing_time : Times, target_landing_time : Times,
     latest_landing_time : Times, penalty_early : PenaltyValues,
     penalty_late : PenaltyValues]

\* problems with one plane: any window, target and penalties; with more
\* planes: any windows, the target at the start of the window, unit penalties
PlanesData(n) ==
    {d \in [0..(n-1) -> PlaneRecords] :
        n > 1 => \A i \in 0..(n-1) :
                    /\ d[i].target_landing_time = d[i].earliest_landing_time
                    /\ d[i].penalty_early = 1
                    /\ d[i].penalty_late = 1}

\* separation matrices: the diagonal is never read by any builder
SeparationMatrices(n) ==
    {m \in [0..(n-1) -> [0..(n-1) -> Seps]] : \A i \in 0..(n-1) : m[i][i] = 0}

Max(a, b) == IF a >= b THEN a ELSE b

(* ----------------------- sequences and loops --------------------------- *)
Range(s) == {s[k] : k \in DOMAIN s}

RECURSIVE Concat(_)
Concat(ss) == IF ss = <<>> THEN <<>> ELSE Head(ss) \o Concat(Tail(ss))

\* for i in range(n): for j in range(n): (i, j)   -- row-major order
AllPairs(n) == [k \in 1..(n * n) |-> <<(k - 1) \div n, (k - 1) % n>>]
\* ... if i != j
OrderedPairs(n) == SelectSeq(AllPairs(n), LAMBDA p : p[1] # p[2])
\* for i in range(n): for j in range(i + 1, n)
UpperPairs(n) == SelectSeq(AllPairs(n), LAMBDA p : p[1] < p[2])
\* for i in range(n): for r in range(m)
PlaneRunwayPairs(n, m) ==
    IF m <= 0 THEN <<>>
    ELSE [k \in 1..(n * m) |-> <<(k - 1) \div m, (k - 1) % m>>]
PlaneSeq(n) == [k \in 1..n |-> k - 1]

(* ------------------ variables, expressions, constraints ---------------- *)
Var(name, i, j) == <<name, i, j>>
landing_time(i) == Var("landing_time", i, -1)
landing_order(i, j) == Var("landing_order", i, j)
early_deviation(i) == Var("early_deviation", i, -1)
late_deviation(i) == Var("late_deviation", i, -1)
same_runway(i, j) == Var("same_runway", i, j)
landing_runway(i, r) == Var("landing_runway", i, r)
position(i) == Var("position", i, -1)
iBeforeJ(i, j) == Var("iBeforeJ", i, j)
runway(i) == Var("runway", i, -1)

\* NewIntVar(lo, hi) / NewBoolVar(): integer values lo..hi
NewIntVar(v, lo, hi) == [v |-> v, lo |-> lo, hi |-> hi, step |-> Scale]
NewBoolVar(v) == NewIntVar(v, 0, 1)
\* variant: the upper bound 0 instead of 1
NumVar01_UpToZero(v) == [v |-> v, lo |-> 0, hi |-> 0, step |-> 1]

\* NumVar(0, 1): every multiple of 1/Scale in [0, 1]
NumVar01(v) == [v |-> v, lo |-> 0, hi |-> 1, step |-> 1]
\* NumVar(lo, hi) of a time: the interval [lo, hi] sampled at the integers
NumVar(v, lo, hi) == [v |-> v, lo |-> lo, hi |-> hi, step |-> Scale]

Values(d) == {x \in (d.lo * Scale)..(d.hi * Scale) : (x - d.lo * Scale) % d.step = 0}

\* linear expressions: sum of coef * var, plus a constant
X(v) == [terms |-> << <<1, v>> >>, const |-> 0]
K(c) == [terms |-> <<>>, const |-> c]
Mul(c, e) == [terms |-> [k \in 1..Len(e.terms) |-> <<c * e.terms[k][1], e.terms[k][2]>>],
              const |-> c * e.const]
Plus(e1, e2) == [terms |-> e1.terms \o e2.terms, const |-> e1.const + e2.const]
Minus(e1, e2) == Plus(e1, Mul(-1, e2))
RECURSIVE SumExpr(_)
SumExpr(es) == IF es = <<>> THEN K(0) ELSE Plus(Head(es), SumExpr(Tail(es)))

\* model.Add(lhs rel rhs), tagged with the source's equation label and indices
Add(eq, at, lhs, rel, rhs) ==
    [kind |-> "linear", eq |-> eq, at |-> at, lhs |-> lhs, rel |-> rel,
     rhs |-> rhs, enf |-> <<>>, over |-> <<>>]
\* .OnlyEnforceIf(lit): lit is <<boolean variable, TRUE>> or <<variable, FALSE>> for Not()
OnlyEnforceIf(c, lit) == [c EXCEPT !.enf = Append(@, lit)]
AddAllDifferent(eq, vs) ==
    [kind |-> "all_different", eq |-> eq, at |-> <<>>, lhs |-> K(0), rel |-> "==",
     rhs |-> K(0), enf |-> <<>>, over |-> vs]

TermVars(e) == {e.terms[k][2] : k \in DOMAIN e.terms}
VarsOf(c) == TermVars(c.lhs) \cup TermVars(c.rhs) \cup Range(c.over)
                \cup {c.enf[k][1] : k \in DOMAIN c.enf}

RECURSIVE SumTerms(_, _)
SumTerms(ts, a) ==
    IF ts = <<>> THEN 0 ELSE Head(ts)[1] * a[Head(ts)[2]] + SumTerms(Tail(ts), a)
\* value of an expression under assignment a, times Scale
Eval(e, a) == SumTerms(e.terms, a) + e.const * Scale

Compare(l, rel, r) ==
    CASE rel = ">=" -> l >= r
      [] rel = "<=" -> l <= r
      [] rel = "==" -> l = r
      [] rel = "!=" -> l # r
      [] rel = "<"  -> l < r

LitTrue(lit, a) == IF lit[2] THEN a[lit[1]] = Scale ELSE a[lit[1]] = 0

Holds(c, a) ==
    IF c.kind = "all_different"
    THEN \A k, m \in DOMAIN c.over : k # m => a[c.over[k]] # a[c.over[m]]
    ELSE (\A k \in DOMAIN c.enf : LitTrue(c.enf[k], a))
            => Compare(Eval(c.lhs, a), c.rel, Eval(c.rhs, a))

(* ------------------------- pair classification ------------------------- *)
\* variant: the separation test is strict
InW_Strict(i, j) ==
    latest(i) < earliest(j) /\ latest(i) + separation_times[i][j] < earliest(j)

\* variant: the test does not look at which of the two windows comes first
InW_EitherWay(i, j) ==
    \/ latest(i) < earliest(j) /\ latest(i) + separation_times[i][j] <= earliest(j)
    \/ latest(j) < earliest(i) /\ latest(j) + separation_times[j][i] <= earliest(i)

\* Set W: latest_i < earliest_j and latest_i + separation_ij <= earliest_j
InW(i, j) ==
    latest(i) < earliest(j) /\ latest(i) + separation_times[i][j] <= earliest(j)

\* variant: the order test latest_i < earliest_j is left out
InV_NoOrderTest(i, j) ==
    latest(i) + separation_times[i][j] > earliest(j)

\* Set V: latest_i < earliest_j and latest_i + separation_ij > earliest_j
InV(i, j) ==
    latest(i) < earliest(j) /\ latest(i) + separation_times[i][j] > earliest(j)

\* variant: the end point must lie strictly inside the other window
InU_Strict(i, j) ==
    \/ (earliest(j) < earliest(i) /\ earliest(i) < latest(j))
    \/ (earliest(j) < latest(i) /\ latest(i) < latest(j))
    \/ (earliest(i) < earliest(j) /\ earliest(j) < latest(i))
    \/ (earliest(i) < latest(j) /\ latest(j) < latest(i))

\* Set U: one window holds an end point of the other
InU(i, j) ==
    \/ (earliest(j) <= earliest(i) /\ earliest(i) <= latest(j))
    \/ (earliest(j) <= latest(i) /\ latest(i) <= latest(j))
    \/ (earliest(i) <= earliest(j) /\ earliest(j) <= latest(i))
    \/ (earliest(i) <= latest(j) /\ latest(j) <= latest(i))

WPairs == SelectSeq(OrderedPairs(num_planes), LAMBDA p : InW(p[1], p[2]))
VPairs == SelectSeq(OrderedPairs(num_planes), LAMBDA p : InV(p[1], p[2]))
UPairs == SelectSeq(OrderedPairs(num_planes), LAMBDA p : InU(p[1], p[2]))

(* --------------------- constraints of the big-M builders --------------- *)
\* variant: at most one of the two orders
OrderTotality_AtMostOne(i, j) ==
    Add("(2)", <<i, j>>, Plus(X(landing_order(i, j)), X(landing_order(j, i))), "<=", K(1))

\* (2) landing_order[(i, j)] + landing_order[(j, i)] == 1
OrderTotality(i, j) ==
    Add("(2)", <<i, j>>, Plus(X(landing_order(i, j)), X(landing_order(j, i))), "==", K(1))

\* variant: the order of the pair is fixed the wrong way round
FixOrder_Reversed(i, j) == Add("(6)", <<i, j>>, X(landing_order(j, i)), "==", K(1))

\* (6) landing_order[(i, j)] == 1
FixOrder(i, j) == Add("(6)", <<i, j>>, X(landing_order(i, j)), "==", K(1))

\* variant: the separation of the reverse pair
SeparationV_single_Reverse(i, j) ==
    Add("(7)", <<i, j>>, X(landing_time(j)), ">=",
        Plus(X(landing_time(i)), K(separation_times[j][i])))

\* Set V, single runway: landing_times[j] >= landing_times[i] + separation_times[i][j]
SeparationV_single(i, j) ==
    Add("(7)", <<i, j>>, X(landing_time(j)), ">=",
        Plus(X(landing_time(i)), K(separation_times[i][j])))

\* variant: the separation is required on different runways too
SeparationV_multiple_AnyRunway(i, j) ==
    Add("(7)", <<i, j>>, X(landing_time(j)), ">=",
        Plus(X(landing_time(i)), K(separation_times[i][j])))

\* (7) multiple runways: ... + separation_times[i][j] * same_runway[(i, j)]
SeparationV_multiple(i, j) ==
    Add("(7)", <<i, j>>, X(landing_time(j)), ">=",
        Plus(X(landing_time(i)), Mul(separation_times[i][j], X(same_runway(i, j)))))

\* variant: the separation of the reverse pair
SeparationU_single_Reverse(i, j) ==
    Add("(11)", <<i, j>>, X(landing_time(j)), ">=",
        Minus(Plus(X(landing_time(i)),
                   Mul(separation_times[j][i], X(landing_order(i, j)))),
              Mul(latest(i) - earliest(j), X(landing_order(j, i)))))

\* variant: the slack taken from the wrong ends of the windows
SeparationU_single_WrongSlack(i, j) ==
    Add("(11)", <<i, j>>, X(landing_time(j)), ">=",
        Minus(Plus(X(landing_time(i)),
                   Mul(separation_times[i][j], X(landing_order(i, j)))),
              Mul(latest(j) - earliest(i), X(landing_order(j, i)))))

\* variant: the separation term is left out
SeparationU_single_NoSeparation(i, j) ==
    Add("(11)", <<i, j>>, X(landing_time(j)), ">=",
        Minus(X(landing_time(i)),
              Mul(latest(i) - earliest(j), X(landing_order(j, i)))))

\* (11) single runway, uncertain pair
SeparationU_single(i, j) ==
    LET latest_i == latest(i)
        earliest_j == earliest(j)
        separation_ij == separation_times[i][j]
        delta_ij == X(landing_order(i, j))
        delta_ji == X(landing_order(j, i))
    IN Add("(11)", <<i, j>>, X(landing_time(j)), ">=",
           Minus(Plus(X(landing_time(i)), Mul(separation_ij, delta_ij)),
                 Mul(latest_i - earliest_j, delta_ji)))

\* variant: the slack does not cover the separation term
SeparationU_multiple_SlackWithoutSep(i, j) ==
    Add("(8)", <<i, j>>, X(landing_time(j)), ">=",
        Minus(Plus(X(landing_time(i)),
                   Mul(separation_times[i][j], X(same_runway(i, j)))),
              Mul(latest(i) - earliest(j), X(landing_order(j, i)))))

\* variant: the separation term is left out
SeparationU_multiple_NoSeparation(i, j) ==
    Add("(8)", <<i, j>>, X(landing_time(j)), ">=",
        Minus(X(landing_time(i)),
              Mul(latest(i) + separation_times[i][j] - earliest(j),
                  X(landing_order(j, i)))))

\* (8) multiple runways, uncertain pair
SeparationU_multiple(i, j) ==
    LET latest_i == latest(i)
        earliest_j == earliest(j)
    IN Add("(8)", <<i, j>>, X(landing_time(j)), ">=",
           Minus(Plus(X(landing_time(i)),
                      Mul(separation_times[i][j], X(same_runway(i, j)))),
                 Mul(latest_i + separation_times[i][j] - earliest_j,
                     X(landing_order(j, i)))))

\* variant: the upper bounds of (15) and (17) are left out
DeviationLinks_NoUpperBounds(i) ==
    << Add("(14)", <<i>>, X(early_deviation(i)), ">=",
           Minus(K(target(i)), X(landing_time(i)))),
       Add("(15)", <<i>>, X(early_deviation(i)), ">=", K(0)),
       Add("(16)", <<i>>, X(late_deviation(i)), ">=",
           Minus(X(landing_time(i)), K(target(i)))),
       Add("(17)", <<i>>, X(late_deviation(i)), ">=", K(0)),
       Add("(18)", <<i>>, X(landing_time(i)), "==",
           Plus(Minus(K(target(i)), X(early_deviation(i))), X(late_deviation(i)))) >>

\* (14)-(18) relating the deviation variables to the landing time
DeviationLinks(i) ==
    LET earliest_i == earliest(i)
        latest_i == latest(i)
        target_i == target(i)
    IN << Add("(14)", <<i>>, X(early_deviation(i)), ">=",
              Minus(K(target_i), X(landing_time(i)))),
          Add("(15)", <<i>>, X(early_deviation(i)), ">=", K(0)),
          Add("(15)", <<i>>, X(early_deviation(i)), "<=", K(target_i - earliest_i)),
          Add("(16)", <<i>>, X(late_deviation(i)), ">=",
              Minus(X(landing_time(i)), K(target_i))),
          Add("(17)", <<i>>, X(late_deviation(i)), ">=", K(0)),
          Add("(17)", <<i>>, X(late_deviation(i)), "<=", K(latest_i - target_i)),
          Add("(18)", <<i>>, X(landing_time(i)), "==",
              Plus(Minus(K(target_i), X(early_deviation(i))), X(late_deviation(i)))) >>

\* variant: at most one runway per plane
OneRunway_AtMostOne(i) ==
    Add("(28)", <<i>>,
        SumExpr([k \in 1..Max(num_runways, 0) |-> X(landing_runway(i, k - 1))]),
        "<=", K(1))

\* (28) sum(landing_runway[(i, r)] for r in range(num_runways)) == 1
OneRunway(i) ==
    Add("(28)", <<i>>,
        SumExpr([k \in 1..Max(num_runways, 0) |-> X(landing_runway(i, k - 1))]),
        "==", K(1))

\* variant: only one direction of the equality
SameRunwaySymmetric_OneWay(i, j) ==
    Add("(29)", <<i, j>>, X(same_runway(i, j)), "<=", X(same_runway(j, i)))

\* (29) same_runway[(i, j)] == same_runway[(j, i)]
SameRunwaySymmetric(i, j) ==
    Add("(29)", <<i, j>>, X(same_runway(i, j)), "==", X(same_runway(j, i)))

\* variant: the link is off by one and never forces same_runway
SameRunwayLink_OffByOne(i, j, r) ==
    Add("(30)", <<i, j, r>>, X(same_runway(i, j)), ">=",
        Minus(Plus(X(landing_runway(i, r)), X(landing_runway(j, r))), K(2)))

\* variant: the link without the - 1
SameRunwayLink_NoMinusOne(i, j, r) ==
    Add("(30)", <<i, j, r>>, X(same_runway(i, j)), ">=",
        Plus(X(landing_runway(i, r)), X(landing_runway(j, r))))

\* (30) same_runway[(i, j)] >= landing_runway[(i, r)] + landing_runway[(j, r)] - 1
SameRunwayLink(i, j, r) ==
    Add("(30)", <<i, j, r>>, X(same_runway(i, j)), ">=",
        Minus(Plus(X(landing_runway(i, r)), X(landing_runway(j, r))), K(1)))

\* variant: an objective without terms
TotalPenalty_NoTerms == SumExpr(<<>>)

\* minimize sum(penalty_early * early_deviation[i] + penalty_late * late_deviation[i])
TotalPenalty ==
    SumExpr([k \in 1..num_planes |->
                Plus(Mul(planes_data[k - 1].penalty_early, X(early_deviation(k - 1))),
                     Mul(planes_data[k - 1].penalty_late, X(late_deviation(k - 1))))])

\* map a constructor over a sequence of index tuples
ForPairs(ps, C(_, _)) == [k \in 1..Len(ps) |-> C(ps[k][1], ps[k][2])]

(* ------- variables of the big-M builders (boolean or relaxed) ---------- *)
LandingTimeVars(exact) ==
    [k \in 1..num_planes |->
        IF exact THEN NewIntVar(landing_time(k - 1), earliest(k - 1), latest(k - 1))
        ELSE NumVar(landing_time(k - 1), earliest(k - 1), latest(k - 1))]

Indicator(exact, v) == IF exact THEN NewBoolVar(v) ELSE NumVar01(v)

LandingOrderVars(exact) ==
    ForPairs(OrderedPairs(num_planes), LAMBDA i, j : Indicator(exact, landing_order(i, j)))

EarlyDeviationVars(exact) ==
    [k \in 1..num_planes |->
        IF exact
        THEN NewIntVar(early_deviation(k - 1), 0, Max(target(k - 1) - earliest(k - 1), 0))
        ELSE NumVar(early_deviation(k - 1), 0, Max(target(k - 1) - earliest(k - 1), 0))]

LateDeviationVars(exact) ==
    [k \in 1..num_planes |->
        IF exact
        THEN NewIntVar(late_deviation(k - 1), 0, Max(latest(k - 1) - target(k - 1), 0))
        ELSE NumVar(late_deviation(k - 1), 0, Max(latest(k - 1) - target(k - 1), 0))]

SameRunwayVars(exact) ==
    ForPairs(OrderedPairs(num_planes), LAMBDA i, j : Indicator(exact, same_runway(i, j)))

LandingRunwayVars(exact) ==
    ForPairs(PlaneRunwayPairs(num_planes, num_runways),
             LAMBDA i, r : Indicator(exact, landing_runway(i, r)))

SingleRunwayVariables(exact) ==
    LandingTimeVars(exact) \o LandingOrderVars(exact)
        \o EarlyDeviationVars(exact) \o LateDeviationVars(exact)

MultipleRunwaysVariables(exact) ==
    SingleRunwayVariables(exact) \o SameRunwayVars(exact) \o LandingRunwayVars(exact)

(* ------------------- constraint lists of the big-M builders ------------ *)
SingleRunwayConstraints ==
    ForPairs(UpperPairs(num_planes), OrderTotality)
    \o Concat(ForPairs(VPairs, LAMBDA i, j : <<FixOrder(i, j), SeparationV_single(i, j)>>))
    \o ForPairs(WPairs, FixOrder)
    \o ForPairs(UPairs, SeparationU_single)
    \o Concat([k \in 1..num_planes |-> DeviationLinks(k - 1)])

MultipleRunwaysConstraints ==
    ForPairs(UpperPairs(num_planes), OrderTotality)
    \o Concat(ForPairs(VPairs, LAMBDA i, j : <<FixOrder(i, j), SeparationV_multiple(i, j)>>))
    \o ForPairs(WPairs, FixOrder)
    \o ForPairs(UPairs, SeparationU_multiple)
    \o Concat([k \in 1..num_planes |-> DeviationLinks(k - 1)])
    \o [k \in 1..num_planes |-> OneRunway(k - 1)]
    \o ForPairs(UpperPairs(num_planes), SameRunwaySymmetric)
    \o Concat(ForPairs(UpperPairs(num_planes),
                       LAMBDA i, j : [k \in 1..Max(num_runways, 0) |->
                                         SameRunwayLink(i, j, k - 1)]))

(* ------------------- permutation builders (CP.py) ---------------------- *)
\* landing_time is created with this upper bound; the window is a constraint
LandingTimeHorizon == 10000000

PermutationVariables ==
    [k \in 1..num_planes |-> NewIntVar(position(k - 1), 0, num_planes - 1)]
    \o [k \in 1..num_planes |-> NewIntVar(landing_time(k - 1), 0, LandingTimeHorizon)]
    \o [k \in 1..num_planes |->
           NewIntVar(early_deviation(k - 1), 0, Max(target(k - 1) - earliest(k - 1), 0))]
    \o [k \in 1..num_planes |->
           NewIntVar(late_deviation(k - 1), 0, Max(latest(k - 1) - target(k - 1), 0))]

WindowConstraints_NoEarliest(i) ==
    << Add("(3.2)", <<i>>, X(landing_time(i)), ">=", K(0)),
       Add("(3.2)", <<i>>, X(landing_time(i)), "<=", K(latest(i))) >>

\* (3.2) landing_time[i] >= E[i], landing_time[i] <= L[i]
WindowConstraints(i) ==
    << Add("(3.2)", <<i>>, X(landing_time(i)), ">=", K(earliest(i))),
       Add("(3.2)", <<i>>, X(landing_time(i)), "<=", K(latest(i))) >>

\* (3.3) early_deviation / late_deviation definitions
DeviationDefinitions(i) ==
    << Add("(3.3)", <<i>>, X(early_deviation(i)), ">=",
           Minus(K(target(i)), X(landing_time(i)))),
       Add("(3.3)", <<i>>, X(early_deviation(i)), ">=", K(0)),
       Add("(3.3)", <<i>>, X(late_deviation(i)), ">=",
           Minus(X(landing_time(i)), K(target(i)))),
       Add("(3.3)", <<i>>, X(late_deviation(i)), ">=", K(0)) >>

\* iBeforeJ[i][j] <-> (position[i] < position[j])
PositionChannel(i, j) ==
    << OnlyEnforceIf(Add("(3.4)", <<i, j>>, X(position(i)), "<", X(position(j))),
                     <<iBeforeJ(i, j), TRUE>>),
       OnlyEnforceIf(Add("(3.4)", <<i, j>>, X(position(i)), ">=", X(position(j))),
                     <<iBeforeJ(i, j), FALSE>>) >>

\* (3.4) separation in the direction iBeforeJ chooses, single runway
ReifiedSeparation_single(i, j) ==
    << OnlyEnforceIf(Add("(3.4)", <<i, j>>, X(landing_time(j)), ">=",
                         Plus(X(landing_time(i)), K(separation_times[i][j]))),
                     <<iBeforeJ(i, j), TRUE>>),
       OnlyEnforceIf(Add("(3.4)", <<j, i>>, X(landing_time(i)), ">=",
                         Plus(X(landing_time(j)), K(separation_times[j][i]))),
                     <<iBeforeJ(i, j), FALSE>>) >>

\* same_runway[i][j] <-> (runway[i] == runway[j])
RunwayChannel(i, j) ==
    << OnlyEnforceIf(Add("same_runway", <<i, j>>, X(runway(i)), "==", X(runway(j))),
                     <<same_runway(i, j), TRUE>>),
       OnlyEnforceIf(Add("same_runway", <<i, j>>, X(runway(i)), "!=", X(runway(j))),
                     <<same_runway(i, j), FALSE>>) >>

\* separation enforced only if the two planes share the runway
ReifiedSeparation_multiple(i, j) ==
    << OnlyEnforceIf(
           OnlyEnforceIf(Add("separation", <<i, j>>, X(landing_time(j)), ">=",
                             Plus(X(landing_time(i)), K(separation_times[i][j]))),
                         <<iBeforeJ(i, j), TRUE>>),
           <<same_runway(i, j), TRUE>>),
       OnlyEnforceIf(
           OnlyEnforceIf(Add("separation", <<j, i>>, X(landing_time(i)), ">=",
                             Plus(X(landing_time(j)), K(separation_times[j][i]))),
                         <<iBeforeJ(i, j), FALSE>>),
           <<same_runway(i, j), TRUE>>) >>

CP_SingleRunwayVariables ==
    PermutationVariables
    \o ForPairs(UpperPairs(num_planes), LAMBDA i, j : NewBoolVar(iBeforeJ(i, j)))

CP_SingleRunwayConstraints ==
    << AddAllDifferent("(3.1)", [k \in 1..num_planes |-> position(k - 1)]) >>
    \o Concat([k \in 1..num_planes |-> WindowConstraints(k - 1)])
    \o Concat([k \in 1..num_planes |-> DeviationDefinitions(k - 1)])
    \o Concat(ForPairs(UpperPairs(num_planes),
                       LAMBDA i, j : PositionChannel(i, j) \o ReifiedSeparation_single(i, j)))

CP_MultipleRunwaysVariables ==
    PermutationVariables
    \o [k \in 1..num_planes |-> NewIntVar(runway(k - 1), 0, num_runways - 1)]
    \o Concat(ForPairs(UpperPairs(num_planes),
                       LAMBDA i, j : <<NewBoolVar(iBeforeJ(i, j)),
                                       NewBoolVar(same_runway(i, j))>>))

CP_MultipleRunwaysConstraints ==
    << AddAllDifferent("all_different", [k \in 1..num_planes |-> position(k - 1)]) >>
    \o Concat([k \in 1..num_planes |-> WindowConstraints(k - 1) \o DeviationDefinitions(k - 1)])
    \o Concat(ForPairs(UpperPairs(num_planes),
                       LAMBDA i, j : PositionChannel(i, j) \o RunwayChannel(i, j)
                                        \o ReifiedSeparation_multiple(i, j)))

(* ------------------------------ backend -------------------------------- *)
SetMax(S) == CHOOSE x \in S : \A y \in S : y <= x
SetMin(S) == CHOOSE x \in S : \A y \in S : x <= y

\* bounds of a variable after propagating the posted constraints `var >= c', `var <= c'
LowerBounds(d, cs) ==
    {d.lo} \cup {cs[k].rhs.const : k \in {m \in DOMAIN cs :
                    /\ cs[m].kind = "linear" /\ cs[m].enf = <<>> /\ cs[m].rel = ">="
                    /\ cs[m].lhs = X(d.v) /\ cs[m].rhs.terms = <<>>}}
UpperBounds(d, cs) ==
    {d.hi} \cup {cs[k].rhs.const : k \in {m \in DOMAIN cs :
                    /\ cs[m].kind = "linear" /\ cs[m].enf = <<>> /\ cs[m].rel = "<="
                    /\ cs[m].lhs = X(d.v) /\ cs[m].rhs.terms = <<>>}}
Candidates(d, cs) ==
    Values([d EXCEPT !.lo = SetMax(LowerBounds(d, cs)), !.hi = SetMin(UpperBounds(d, cs))])

\* position in vs of the last variable of constraint c (0 if it has none)
LastVar(vs, c) ==
    LET where == {k \in DOMAIN vs : vs[k].v \in VarsOf(c)}
    IN IF where = {} THEN 0 ELSE SetMax(where)

\* all extensions of the partial assignment a to the variables vs[k], vs[k+1], ...
\* dom[k]: the candidate values of vs[k]; due[k]: the constraints whose
\* variables are all assigned once vs[k] is
RECURSIVE Extend(_, _, _, _, _)
Extend(vs, dom, due, k, a) ==
    IF k > Len(vs) THEN {a}
    ELSE LET v == vs[k].v
             ok == {x \in dom[k] : \A c \in due[k] : Holds(c, a @@ (v :> x))}
         IN UNION {Extend(vs, dom, due, k + 1, a @@ (v :> x)) : x \in ok}

EmptyAssignment == [v \in {} |-> 0]

\* the assignments of the model's variables that satisfy every posted constraint
Solutions(vs, cs) ==
    LET last == [m \in DOMAIN cs |-> LastVar(vs, cs[m])] \o <<>>
        dom == [k \in DOMAIN vs |-> Candidates(vs[k], cs)] \o <<>>
        due == [k \in DOMAIN vs |-> {cs[m] : m \in {n \in DOMAIN cs : last[n] = k}}] \o <<>>
    IN IF \E m \in DOMAIN cs : last[m] = 0 /\ ~Holds(cs[m], EmptyAssignment)
       THEN {}
       ELSE Extend(vs, dom, due, 1, EmptyAssignment)

\* the least value (times Scale) the objective takes on the solutions S
BestObjective(S, obj) == SetMin({Eval(obj, b) : b \in S})

(* ----------------------------- behaviour ------------------------------- *)
Builders ==
    {"CP_MIP.create_cp_model_single_runway", "CP_MIP.create_cp_model_multiple_runways",
     "MIP.create_mip_model_single_runway", "MIP.create_mip_model_multiple_runways",
     "CP.create_cp_model_single_runway", "CP.create_cp_model_multiple_runways",
     "ALS.MIP.create_mip_solver"}

NoSolution == EmptyAssignment

\* read_data has returned the instance
DataRead ==
    /\ f = <<>>
    /\ offset = 0
    /\ rpc = "returned"
    /\ separation_row = <<>>
    /\ returned = <<num_planes, planes_data, separation_times>>

Init ==
    /\ num_planes \in PlaneCounts
    /\ planes_data \in PlanesData(num_planes)
    /\ separation_times \in SeparationMatrices(num_planes)
    /\ num_runways \in 0..MaxRunways
    /\ pc = "start"
    /\ builder = "none"
    /\ variables = <<>>
    /\ constraints = <<>>
    /\ objective = K(0)
    /\ certain_with_separation_pairs = <<>>
    /\ certain_with_no_separation_pairs = <<>>
    /\ uncertain_pairs = <<>>
    /\ status = "none"
    /\ solution = NoSolution
    /\ solve_calls = 0
    /\ report = <<>>
    /\ values_read = FALSE
    /\ outcome = "running"
    /\ DataRead

Built_ConsumesSeparations(b, vs, cs, w, v, u) ==
    /\ pc = "start"
    /\ pc' = "built"
    /\ builder' = b
    /\ variables' = vs
    /\ constraints' = cs
    /\ objective' = TotalPenalty
    /\ certain_with_separation_pairs' = w
    /\ certain_with_no_separation_pairs' = v
    /\ uncertain_pairs' = u
    /\ separation_times' = [i \in Planes |-> [j \in Planes |-> 0]]
    /\ UNCHANGED <<num_planes, planes_data, num_runways, status, solution,
                   solve_calls, report, values_read, outcome, reader>>


Built(b, vs, cs, w, v, u) ==
    /\ pc = "start"
    /\ pc' = "built"
    /\ builder' = b
    /\ variables' = vs
    /\ constraints' = cs
    /\ objective' = TotalPenalty
    /\ certain_with_separation_pairs' = w
    /\ certain_with_no_separation_pairs' = v
    /\ uncertain_pairs' = u
    /\ UNCHANGED <<problem, status, solution, solve_calls, report, values_read, outcome, reader>>

CP_MIP_create_cp_model_single_runway ==
    Built("CP_MIP.create_cp_model_single_runway",
          SingleRunwayVariables(TRUE), SingleRunwayConstraints, WPairs, VPairs, UPairs)

CP_MIP_create_cp_model_multiple_runways ==
    Built("CP_MIP.create_cp_model_multiple_runways",
          MultipleRunwaysVariables(TRUE), MultipleRunwaysConstraints, WPairs, VPairs, UPairs)

MIP_create_mip_model_single_runway ==
    Built("MIP.create_mip_model_single_runway",
          SingleRunwayVariables(FALSE), SingleRunwayConstraints, WPairs, VPairs, UPairs)

MIP_create_mip_model_multiple_runways ==
    Built("MIP.create_mip_model_multiple_runways",
          MultipleRunwaysVariables(FALSE), MultipleRunwaysConstraints, WPairs, VPairs, UPairs)

ALS_MIP_create_mip_solver ==
    Built("ALS.MIP.create_mip_solver",
          MultipleRunwaysVariables(FALSE), MultipleRunwaysConstraints, WPairs, VPairs, UPairs)

CP_create_cp_model_single_runway ==
    Built("CP.create_cp_model_single_runway",
          CP_SingleRunwayVariables, CP_SingleRunwayConstraints, <<>>, <<>>, <<>>)

CP_create_cp_model_multiple_runways ==
    Built("CP.create_cp_model_multiple_runways",
          CP_MultipleRunwaysVariables, CP_MultipleRunwaysConstraints, <<>>, <<>>, <<>>)

\* what an entry point does once the backend has answered: the outcome lines
\* it prints, whether it reads variable values, and how it ends
Reported(lines, read, end) == [report |-> lines, values_read |-> read, outcome |-> end]
StatusName(st) == st

\* solve_cp_sat_model_single_runway, solve_cp_sat_model_multiple_runways
CP_MIP_report(st) ==
    IF st = "OPTIMAL" THEN {Reported(<<"-> Optimal Cost:">>, TRUE, "returned")}
    ELSE IF st = "FEASIBLE"
    THEN {Reported(<<"-> Best feasible solution found.">>, TRUE, "returned")}
    ELSE {Reported(<<"-> No feasible/optimal solution found. Status:", StatusName(st)>>,
                   FALSE, "returned")}

\* solve_single_runway_cp
CP_single_report(st) ==
    IF st = "OPTIMAL" THEN {Reported(<<"-> Optimal Cost:">>, TRUE, "returned")}
    ELSE IF st = "FEASIBLE"
    THEN {Reported(<<"-> Best feasible solution found:">>, TRUE, "returned")}
    ELSE {Reported(<<"-> No feasible/optimal solution found. Status:", StatusName(st)>>,
                   FALSE, "returned")}

\* solve_multiple_runways_cp
CP_multiple_report(st) ==
    IF st = "OPTIMAL" THEN {Reported(<<"-> Optimal Cost:">>, TRUE, "returned")}
    ELSE IF st = "FEASIBLE"
    THEN {Reported(<<"-> No optimal solution found.", "-> Best feasible solution found:">>,
                   TRUE, "returned")}
    ELSE {Reported(<<"-> No feasible/optimal solution found. Status:", StatusName(st)>>,
                   FALSE, "returned")}

\* solve_single_runway_mip, solve_multiple_runways_mip of MIP.py: outside the
\* OPTIMAL branch they call solver.ObjectiveValue(), solver.Value() and
\* solver.StatusName() on the pywraplp solver; where the linear solver wrapper
\* has no such method the call raises AttributeError
MIP_report(st) ==
    IF st = "OPTIMAL" THEN {Reported(<<"-> Optimal Cost:">>, TRUE, "returned")}
    ELSE IF st = "FEASIBLE"
    THEN {Reported(<<"-> No optimal solution found.", "-> Best feasible solution found:">>,
                   TRUE, "returned"),
          Reported(<<"-> No optimal solution found.">>, FALSE, "AttributeError")}
    ELSE {Reported(<<"-> No feasible/optimal solution found. Status:", StatusName(st)>>,
                   FALSE, "returned"),
          Reported(<<>>, FALSE, "AttributeError")}

\* solve_multiple_runways_mip of src/ALS/MIP.py
ALS_MIP_report(st) ==
    IF st = "OPTIMAL" THEN {Reported(<<"Optimal Cost:">>, TRUE, "returned")}
    ELSE {Reported(<<"No optimal solution found.">>, FALSE, "returned")}

Reports(b, st) ==
    CASE b \in {"CP_MIP.create_cp_model_single_runway",
                "CP_MIP.create_cp_model_multiple_runways"} -> CP_MIP_report(st)
      [] b = "CP.create_cp_model_single_runway" -> CP_single_report(st)
      [] b = "CP.create_cp_model_multiple_runways" -> CP_multiple_report(st)
      [] b \in {"MIP.create_mip_model_single_runway",
                "MIP.create_mip_model_multiple_runways"} -> MIP_report(st)
      [] b = "ALS.MIP.create_mip_solver" -> ALS_MIP_report(st)

\* status = solver.Solve(model): a solution (proven optimal or not), a proof
\* that there is none, or no answer (time limit, resources); then the entry
\* point reports the status and returns
Solve ==
    /\ pc = "built"
    /\ \E S \in {Solutions(variables, constraints)} :
          \/ /\ S # {}
             /\ \E best \in {BestObjective(S, objective)} :
                   \E a \in S :
                      /\ solution' = a
                      /\ status' \in (IF Eval(objective, a) = best
                                      THEN {"OPTIMAL", "FEASIBLE"} ELSE {"FEASIBLE"})
          \/ S = {} /\ status' = "INFEASIBLE" /\ solution' = NoSolution
          \/ status' = "UNKNOWN" /\ solution' = NoSolution
    /\ solve_calls' = solve_calls + 1
    /\ \E r \in Reports(builder, status') :
          /\ report' = r.report
          /\ values_read' = r.values_read
          /\ outcome' = r.outcome
    /\ pc' = "solved"
    /\ UNCHANGED <<problem, builder, variables, constraints, objective,
                   certain_with_separation_pairs, certain_with_no_separation_pairs,
                   uncertain_pairs, reader>>

Next ==
    \/ CP_MIP_create_cp_model_single_runway
    \/ CP_MIP_create_cp_model_multiple_runways
    \/ MIP_create_mip_model_single_runway
    \/ MIP_create_mip_model_multiple_runways
    \/ ALS_MIP_create_mip_solver
    \/ CP_create_cp_model_single_runway
    \/ CP_create_cp_model_multiple_runways
    \/ Solve

Spec == Init /\ [][Next]_vars

(* ======================== properties =================================== *)
BigMSingle == {"CP_MIP.create_cp_model_single_runway", "MIP.create_mip_model_single_runway"}
BigMMultiple ==
    {"CP_MIP.create_cp_model_multiple_runways", "MIP.create_mip_model_multiple_runways",
     "ALS.MIP.create_mip_solver"}
BigM == BigMSingle \cup BigMMultiple
Permutation == {"CP.create_cp_model_single_runway", "CP.create_cp_model_multiple_runways"}
SingleRunway == BigMSingle \cup {"CP.create_cp_model_single_runway"}
MultipleRunways == BigMMultiple \cup {"CP.create_cp_model_multiple_runways"}

ModelBuilt == pc \in {"built", "solved"}
HasSolution == pc = "solved" /\ status \in {"OPTIMAL", "FEASIBLE"}

\* earliest <= target <= latest for every aircraft, separations >= 0
ValidInstance ==
    /\ \A i \in Planes : earliest(i) <= target(i) /\ target(i) <= latest(i)
    /\ \A i, j \in Planes : separation_times[i][j] >= 0

One == Scale
Window(i) == {t * Scale : t \in earliest(i)..latest(i)}
AnyTime == {t * Scale : t \in 0..(MaxTime + MaxSep)}

InSeq(p, ps) == \E k \in DOMAIN ps : ps[k] = p
Posted(P(_)) == {m \in DOMAIN constraints : P(constraints[m])}

\* values in the returned solution
LandingTime(i) == solution[landing_time(i)]
EarlyDev(i) == solution[early_deviation(i)]
LateDev(i) == solution[late_deviation(i)]
\* order[i][j]: landing_order in the big-M builders, iBeforeJ in the permutation ones
Order(i, j) ==
    IF builder \in BigM THEN solution[landing_order(i, j)]
    ELSE IF i < j THEN solution[iBeforeJ(i, j)] ELSE One - solution[iBeforeJ(j, i)]
OrderIntegral == \A i, j \in Planes : i # j => Order(i, j) \in {0, One}
OnSameRunway(i, j) ==
    IF builder \in BigM
    THEN \E r \in Runways : solution[landing_runway(i, r)] = One
                              /\ solution[landing_runway(j, r)] = One
    ELSE solution[runway(i)] = solution[runway(j)]
SameRunwayOf(i, j) ==
    IF builder \in BigM THEN solution[same_runway(i, j)]
    ELSE IF i < j THEN solution[same_runway(i, j)] ELSE solution[same_runway(j, i)]
RunwayIntegral ==
    builder \in BigM =>
        /\ \A i \in Planes : \A r \in Runways : solution[landing_runway(i, r)] \in {0, One}
        /\ \A i, j \in Planes : i # j => solution[same_runway(i, j)] \in {0, One}

InWSet(i, j) == InSeq(<<i, j>>, certain_with_separation_pairs)
InVSet(i, j) == InSeq(<<i, j>>, certain_with_no_separation_pairs)
InUSet(i, j) == InSeq(<<i, j>>, uncertain_pairs)
SetsHolding(i, j) ==
    (IF InWSet(i, j) THEN 1 ELSE 0) + (IF InVSet(i, j) THEN 1 ELSE 0)
        + (IF InUSet(i, j) THEN 1 ELSE 0)

(* C1 (as stated): for every valid instance every ordered pair (i, j), i # j, *)
(* is in exactly one of W, V, U.                                             *)
C1_ExactlyOneSet ==
    (pc = "built" /\ builder \in BigM /\ ValidInstance) =>
        \A i, j \in Planes : i # j => SetsHolding(i, j) = 1

(* C1 (amended): for every valid instance every ordered pair (i, j), i # j,  *)
(* is in at most one of W, V, U, and it is in none of them exactly when       *)
(* latest_j < earliest_i, that is when the reverse pair (j, i) is in W or V.  *)
C1_AtMostOneSet ==
    (pc = "built" /\ builder \in BigM /\ ValidInstance) =>
        \A i, j \in Planes : i # j =>
            /\ SetsHolding(i, j) <= 1
            /\ SetsHolding(i, j) = 0 <=> latest(j) < earliest(i)
            /\ SetsHolding(i, j) = 0 <=> (InWSet(j, i) \/ InVSet(j, i))

C1_Witness ==
    /\ pc = "built" /\ builder \in BigM /\ ValidInstance
    /\ \E i, j \in Planes : i # j /\ SetsHolding(i, j) = 0 /\ InVSet(j, i)

(* C2: single runway, 0/1 order variables: order[i][j] = 1 implies            *)
(* landingTime_j >= landingTime_i + sep[i][j], in every returned solution.    *)
C2_SingleRunwaySeparation ==
    (HasSolution /\ builder \in SingleRunway /\ OrderIntegral) =>
        \A i, j \in Planes : (i # j /\ Order(i, j) = One) =>
            LandingTime(j) >= LandingTime(i) + separation_times[i][j] * Scale

C2_Witness ==
    /\ HasSolution /\ status = "OPTIMAL" /\ builder \in BigMSingle /\ OrderIntegral
    /\ \E i, j \in Planes :
          /\ i > j /\ InUSet(i, j) /\ Order(i, j) = One
          /\ separation_times[i][j] > separation_times[j][i]
          /\ LandingTime(j) = LandingTime(i) + separation_times[i][j] * Scale

(* C3: multiple runways, 0/1 variables: two aircraft on the same runway with  *)
(* order[i][j] = 1 satisfy landingTime_j >= landingTime_i + sep[i][j].        *)
C3_SameRunwaySeparation ==
    (HasSolution /\ builder \in MultipleRunways /\ OrderIntegral /\ RunwayIntegral) =>
        \A i, j \in Planes : (i # j /\ OnSameRunway(i, j) /\ Order(i, j) = One) =>
            LandingTime(j) >= LandingTime(i) + separation_times[i][j] * Scale

C3_Witness ==
    /\ HasSolution /\ builder \in BigMMultiple /\ OrderIntegral /\ RunwayIntegral
    /\ num_runways > 1
    /\ \E i, j \in Planes :
          /\ i > j /\ OnSameRunway(i, j) /\ Order(i, j) = One
          /\ separation_times[i][j] > 0
          /\ LandingTime(j) = LandingTime(i) + separation_times[i][j] * Scale

\* aircraft on different runways may land closer than sep (reached, not required)
C3_DifferentRunwaysUnseparated ==
    /\ HasSolution /\ builder \in MultipleRunways /\ OrderIntegral /\ RunwayIntegral
    /\ \E i, j \in Planes :
          /\ i # j /\ ~OnSameRunway(i, j) /\ Order(i, j) = One
          /\ LandingTime(j) < LandingTime(i) + separation_times[i][j] * Scale

(* C4 (as stated): in every returned solution of any builder, earlyDev_i >= 0, *)
(* lateDev_i >= 0 and landingTime_i = target_i - earlyDev_i + lateDev_i.       *)
C4_DeviationDecomposition ==
    HasSolution =>
        \A i \in Planes :
            /\ EarlyDev(i) >= 0
            /\ LateDev(i) >= 0
            /\ LandingTime(i) = target(i) * Scale - EarlyDev(i) + LateDev(i)

\* assignments of the variables of one pair's separation constraint
PairValues(i, j, ti, tj, oij, oji, z) ==
    (landing_time(i) :> ti) @@ (landing_time(j) :> tj)
        @@ (landing_order(i, j) :> oij) @@ (landing_order(j, i) :> oji)
        @@ (same_runway(i, j) :> z) @@ (same_runway(j, i) :> z)

\* the posted constraints that relate the landing times of i and j
Relating(i, j) ==
    Posted(LAMBDA c : {landing_time(i), landing_time(j)} \subseteq VarsOf(c))
\* the posted constraints over exactly the variables vs
Over(vs) == Posted(LAMBDA c : c.kind = "linear" /\ c.enf = <<>> /\ VarsOf(c) = vs)
\* the inequality the builder posted for the uncertain pair (i, j)
UncertainInequality(i, j) ==
    Posted(LAMBDA c : c.eq \in {"(8)", "(11)"} /\ c.at = <<i, j>>)

(* C5: single runway, uncertain pair (i, j): the posted inequality holds for  *)
(* all landing times inside the two windows when order[j][i] = 1 and          *)
(* order[i][j] = 0, and is landingTime_j >= landingTime_i + sep[i][j] when    *)
(* order[i][j] = 1 and order[j][i] = 0.                                       *)
C5_BigMSingleRunway ==
    (pc = "built" /\ builder \in BigMSingle) =>
        \A i, j \in Planes : (i # j /\ InUSet(i, j)) =>
            /\ Cardinality(UncertainInequality(i, j)) = 1
            /\ \A m \in UncertainInequality(i, j) :
                  /\ \A ti \in Window(i), tj \in Window(j) :
                        Holds(constraints[m], PairValues(i, j, ti, tj, 0, One, 0))
                  /\ \A ti, tj \in AnyTime :
                        Holds(constraints[m], PairValues(i, j, ti, tj, One, 0, 0))
                            <=> tj >= ti + separation_times[i][j] * Scale

C5_Witness ==
    /\ pc = "built" /\ builder \in BigMSingle
    /\ \E i, j \in Planes :
          /\ i # j /\ InUSet(i, j) /\ separation_times[i][j] > 0
          /\ latest(i) > earliest(j) /\ latest(j) > latest(i)

(* C6: multiple runways, uncertain pair (i, j), sep[i][j] >= 0: the posted    *)
(* inequality holds for all landing times inside the two windows and both     *)
(* values of sameRunway[i][j] when order[j][i] = 1, and is                    *)
(* landingTime_j >= landingTime_i + sep[i][j] when order[j][i] = 0 and        *)
(* sameRunway[i][j] = 1.                                                      *)
C6_BigMMultipleRunways ==
    (pc = "built" /\ builder \in BigMMultiple) =>
        \A i, j \in Planes : (i # j /\ InUSet(i, j) /\ separation_times[i][j] >= 0) =>
            /\ Cardinality(UncertainInequality(i, j)) = 1
            /\ \A m \in UncertainInequality(i, j) :
                  /\ \A ti \in Window(i), tj \in Window(j), z \in {0, One} :
                        Holds(constraints[m], PairValues(i, j, ti, tj, 0, One, z))
                  /\ \A ti, tj \in AnyTime :
                        Holds(constraints[m], PairValues(i, j, ti, tj, One, 0, One))
                            <=> tj >= ti + separation_times[i][j] * Scale

C6_Witness ==
    /\ pc = "built" /\ builder \in BigMMultiple /\ num_runways > 1
    /\ \E i, j \in Planes :
          /\ i # j /\ InUSet(i, j) /\ separation_times[i][j] > 0
          /\ latest(i) > earliest(j) /\ latest(j) > latest(i)

\* the instance is invalid for the builder: a target outside its window, or
\* (for the builders that take a runway count) fewer than one runway
InvalidInstance ==
    \/ \E i \in Planes : earliest(i) > target(i) \/ target(i) > latest(i)
    \/ builder \in MultipleRunways /\ num_runways < 1

C8_OrderTotality ==
    (builder \in BigM) =>
        \A i, j \in Planes : i < j =>
            /\ pc = "built" =>
                  /\ Cardinality(Over({landing_order(i, j), landing_order(j, i)})) = 1
                  /\ \A m \in Over({landing_order(i, j), landing_order(j, i)}) :
                        \A oij, oji \in 0..One :
                            Holds(constraints[m], PairValues(i, j, 0, 0, oij, oji, 0))
                                <=> oij + oji = One
            /\ (HasSolution /\ OrderIntegral) =>
                  (Order(i, j) = One /\ Order(j, i) = 0)
                      \/ (Order(i, j) = 0 /\ Order(j, i) = One)

C8_Witness ==
    /\ HasSolution /\ builder \in BigM /\ OrderIntegral
    /\ \E i, j \in Planes : i < j /\ InUSet(i, j) /\ Order(i, j) = 0 /\ Order(j, i) = One

\* the pair conditions of the classes, on the instance data
ClassW(i, j) ==
    latest(i) < earliest(j) /\ latest(i) + separation_times[i][j] <= earliest(j)
ClassV(i, j) ==
    latest(i) < earliest(j) /\ latest(i) + separation_times[i][j] > earliest(j)
OrderFixed(i, j) ==
    \E m \in Over({landing_order(i, j)}) :
        \A o \in 0..One :
            Holds(constraints[m], PairValues(i, j, 0, 0, o, 0, 0)) <=> o = One

C9_Body(i, j) ==
    /\ OrderFixed(i, j)
    /\ Relating(i, j) = {}
    /\ \A ti \in Window(i), tj \in Window(j) :
          tj >= ti + separation_times[i][j] * Scale

C10_InequalityForV ==
    (pc = "built" /\ builder \in BigM) =>
        \A i, j \in Planes : (i # j /\ ClassV(i, j)) =>
            /\ OrderFixed(i, j)
            /\ builder \in BigMSingle =>
                  \E m \in Over({landing_time(i), landing_time(j)}) :
                      \A ti, tj \in AnyTime :
                          Holds(constraints[m], PairValues(i, j, ti, tj, One, 0, 0))
                              <=> tj >= ti + separation_times[i][j] * Scale
            /\ builder \in BigMMultiple =>
                  \E m \in Over({landing_time(i), landing_time(j), same_runway(i, j)}) :
                      \A ti, tj \in AnyTime, z \in {0, One} :
                          Holds(constraints[m], PairValues(i, j, ti, tj, One, 0, z))
                              <=> tj >= ti + separation_times[i][j] * z

C10_Witness ==
    /\ pc = "built" /\ builder \in BigMMultiple
    /\ \E i, j \in Planes :
          /\ i > j /\ ClassV(i, j) /\ InVSet(i, j)
          /\ separation_times[i][j] # separation_times[j][i]
          /\ earliest(i) + separation_times[i][j] <= latest(j)

\* the runways plane i is assigned to in the returned solution
RunwaysOf(i) ==
    IF builder \in BigM
    THEN {r \in Runways : solution[landing_runway(i, r)] = One}
    ELSE {r \in Runways : solution[runway(i)] = r * Scale}

(* C11: in every solution of a multi-runway model with 0/1 runway variables,   *)
(* for every runway count >= 1, every aircraft is assigned to exactly one      *)
(* runway: the runwayOf[i][r] sum to 1 over r.                                 *)
C11_ExactlyOneRunway ==
    (HasSolution /\ builder \in MultipleRunways /\ RunwayIntegral /\ num_runways >= 1) =>
        \A i \in Planes :
            /\ Cardinality(RunwaysOf(i)) = 1
            /\ builder \in BigM =>
                  Eval(SumExpr([k \in 1..num_runways |-> X(landing_runway(i, k - 1))]),
                       solution) = One

C11_Witness ==
    /\ HasSolution /\ builder \in BigMMultiple /\ RunwayIntegral /\ num_runways = MaxRunways
    /\ \E i, j \in Planes : i # j /\ RunwaysOf(i) # RunwaysOf(j)
                             /\ RunwaysOf(i) # {} /\ RunwaysOf(j) # {}

(* C12: in every solution of a big-M multi-runway model with 0/1 variables,    *)
(* for every ordered pair (i, j), i # j, in either index order:                *)
(* sameRunway[i][j] = sameRunway[j][i], and sameRunway[i][j] = 1 when i and j  *)
(* are assigned to the same runway.                                            *)
C12_SameRunwaySymmetricAndLinked ==
    (HasSolution /\ builder \in BigMMultiple /\ RunwayIntegral /\ OrderIntegral) =>
        \A i, j \in Planes : i # j =>
            /\ solution[same_runway(i, j)] = solution[same_runway(j, i)]
            /\ OnSameRunway(i, j) => solution[same_runway(i, j)] = One

C12_Witness ==
    /\ HasSolution /\ builder \in BigMMultiple /\ RunwayIntegral /\ OrderIntegral
    /\ num_runways > 1
    /\ \E i, j \in Planes :
          /\ i > j /\ OnSameRunway(i, j)
          /\ solution[same_runway(i, j)] = One /\ solution[same_runway(j, i)] = One

\* assignments in which every variable takes an integer value
Integral(a) == \A v \in DOMAIN a : a[v] % Scale = 0
\* planes i and j are assigned to one runway in assignment a of a big-M model
SharedRunway(a, i, j) ==
    \E r \in Runways : a[landing_runway(i, r)] = One /\ a[landing_runway(j, r)] = One
\* same_runway is 1 in a for two planes on different runways
Spurious(a) ==
    \E i, j \in Planes : i # j /\ ~SharedRunway(a, i, j) /\ a[same_runway(i, j)] = One
\* the 0/1 solutions of the built model
IntegralSolutions == {a \in Solutions(variables, constraints) : Integral(a)}

(* C13: for every valid instance, the optimal objective of the big-M           *)
(* multi-runway model over 0/1 variables equals the optimal objective of the   *)
(* same model with sameRunway[i][j] = 0 required for aircraft on different     *)
(* runways (and the one model is feasible exactly when the other is).          *)
C13_SpuriousSameRunwayIsFree ==
    (pc = "built" /\ builder \in BigMMultiple /\ ValidInstance) =>
        \A S \in {IntegralSolutions} :
            \A T \in {{a \in S : ~Spurious(a)}} :
                /\ S = {} <=> T = {}
                /\ S # {} => BestObjective(S, objective) = BestObjective(T, objective)

\* a built model with an optimal 0/1 solution in which same_runway is 1 for two
\* planes on different runways that need a positive separation, and with a
\* 0/1 solution of higher cost
C13_Witness ==
    /\ pc = "built" /\ builder \in BigMMultiple /\ ValidInstance /\ num_runways > 1
    /\ \E S \in {IntegralSolutions} :
          /\ S # {}
          /\ \E a \in S :
                /\ Eval(objective, a) = BestObjective(S, objective)
                /\ \E i, j \in Planes :
                      /\ i # j /\ ~SharedRunway(a, i, j) /\ a[same_runway(i, j)] = One
                      /\ separation_times[i][j] > 0 /\ InUSet(i, j)
          /\ \E a \in S : Eval(objective, a) > BestObjective(S, objective)

PositivePenalties ==
    \A i \in Planes : planes_data[i].penalty_early > 0 /\ planes_data[i].penalty_late > 0
NonNegativePenalties ==
    \A i \in Planes : planes_data[i].penalty_early >= 0 /\ planes_data[i].penalty_late >= 0
AtMostOneDeviation == \A i \in Planes : EarlyDev(i) = 0 \/ LateDev(i) = 0

(* C14 (as stated): for every valid instance with non-negative penalty weights *)
(* (zero allowed), in every optimal solution at most one of earlyDev_i and     *)
(* lateDev_i is non-zero, for every aircraft i.                                *)
C14_OneDeviationAtOptimum ==
    (pc = "solved" /\ status = "OPTIMAL" /\ ValidInstance /\ NonNegativePenalties)
        => AtMostOneDeviation

(* C14 (amended): the same for instances whose penalty weights are all         *)
(* strictly positive.                                                          *)
C14_OneDeviationAtOptimum_PositivePenalties ==
    (pc = "solved" /\ status = "OPTIMAL" /\ ValidInstance /\ PositivePenalties)
        => AtMostOneDeviation

\* an optimal solution for a plane whose target is strictly inside its window,
\* so that both deviations have room to be non-zero
C14_Witness ==
    /\ pc = "solved" /\ status = "OPTIMAL" /\ ValidInstance /\ PositivePenalties
    /\ \E i \in Planes : earliest(i) < target(i) /\ target(i) < latest(i)
    /\ AtMostOneDeviation

(* ------------------------- scenarios of the tests ---------------------- *)
\* a model is still to be built
ModelNotBuilt ==
    /\ pc = "start"
    /\ builder = "none"
    /\ variables = <<>>
    /\ constraints = <<>>
    /\ objective = K(0)
    /\ certain_with_separation_pairs = <<>>
    /\ certain_with_no_separation_pairs = <<>>
    /\ uncertain_pairs = <<>>
    /\ status = "none"
    /\ solution = NoSolution
    /\ solve_calls = 0
    /\ report = <<>>
    /\ values_read = FALSE
    /\ outcome = "running"

PositiveWeights == 1..MaxPenalty
\* n planes with the same window [e, l] and target t, all separations s
IdenticalPlanes(n, e, t, l, pe, pl) ==
    [i \in 0..(n - 1) |->
        [earliest_landing_time |-> e, target_landing_time |-> t,
         latest_landing_time |-> l, penalty_early |-> pe, penalty_late |-> pl]]
UniformSeparation(n, s) ==
    [i \in 0..(n - 1) |-> [j \in 0..(n - 1) |-> IF i = j THEN 0 ELSE s]]

\* Scenario A: 2 aircraft, 1 runway, windows [0,10], target 5, sep = [[0,3],[3,0]]
InitScenarioA ==
    /\ num_planes = 2
    /\ \E pe, pl \in PositiveWeights :
          planes_data = IdenticalPlanes(2, 0, 5, 10, pe, pl)
    /\ separation_times = UniformSeparation(2, 3)
    /\ num_runways = 1
    /\ ModelNotBuilt
    /\ DataRead

NextScenarioA ==
    \/ CP_MIP_create_cp_model_single_runway
    \/ MIP_create_mip_model_single_runway
    \/ CP_create_cp_model_single_runway
    \/ Solve

SpecScenarioA == InitScenarioA /\ [][NextScenarioA]_vars

Abs(x) == IF x >= 0 THEN x ELSE -x
\* the solutions in S whose objective is best
Optimal(S, best) == {a \in S : Eval(objective, a) = best}

(* C15: Scenario A: the single-runway model with 0/1 order variables has an    *)
(* optimal objective strictly greater than 0, and in every optimal solution    *)
(* the two landing times differ by at least 3.                                 *)
C15_ScenarioA ==
    /\ (pc = "built" /\ builder \in SingleRunway) =>
          \A S \in {IntegralSolutions} :
              /\ S # {}
              /\ \A best \in {BestObjective(S, objective)} :
                    /\ best > 0
                    /\ \A a \in Optimal(S, best) :
                          Abs(a[landing_time(0)] - a[landing_time(1)]) >= 3 * Scale
    /\ (pc = "solved" /\ status = "OPTIMAL" /\ OrderIntegral) =>
          /\ Eval(objective, solution) > 0
          /\ Abs(LandingTime(0) - LandingTime(1)) >= 3 * Scale

C15_Witness ==
    /\ pc = "solved" /\ status = "OPTIMAL" /\ OrderIntegral
    /\ builder = "CP_MIP.create_cp_model_single_runway"
    /\ LandingTime(0) = 5 * Scale /\ LandingTime(1) = 8 * Scale
    /\ Eval(objective, solution) = 3 * planes_data[1].penalty_late * Scale

\* Scenario D: 3 aircraft with identical overlapping windows, 2 runways; the
\* window is [0, MaxTime], the target any time in it, the separations equal
\* and positive
InitScenarioD ==
    /\ num_planes = 3
    /\ \E t \in Times, pe, pl \in PositiveWeights :
          planes_data = IdenticalPlanes(3, 0, t, MaxTime, pe, pl)
    /\ \E s \in 1..MaxSep : separation_times = UniformSeparation(3, s)
    /\ num_runways = 2
    /\ ModelNotBuilt
    /\ DataRead

NextScenarioD ==
    \/ CP_MIP_create_cp_model_multiple_runways
    \/ CP_create_cp_model_multiple_runways
    \/ Solve

SpecScenarioD == InitScenarioD /\ [][NextScenarioD]_vars

(* C16: Scenario D: the multi-runway model has a feasible solution, and in     *)
(* every feasible solution each aircraft is on exactly one runway and any two  *)
(* aircraft on the same runway land at least their separation apart (so the    *)
(* three do not all land at the same time on one runway).                      *)
C16_ScenarioD ==
    /\ pc = "solved" => status # "INFEASIBLE"
    /\ HasSolution =>
          /\ \A i \in Planes : Cardinality(RunwaysOf(i)) = 1
          /\ \A i, j \in Planes : (i # j /\ RunwaysOf(i) = RunwaysOf(j)) =>
                Abs(LandingTime(i) - LandingTime(j)) >= separation_times[i][j] * Scale
          /\ ~(\A i, j \in Planes : /\ RunwaysOf(i) = RunwaysOf(j)
                                     /\ LandingTime(i) = LandingTime(j))

\* two aircraft share a runway exactly their separation apart while the third
\* lands on the other runway at the time of one of them
C16_Witness ==
    /\ HasSolution /\ builder = "CP_MIP.create_cp_model_multiple_runways"
    /\ \E i, j, k \in Planes :
          /\ i # j /\ j # k /\ i # k
          /\ RunwaysOf(i) = RunwaysOf(j) /\ RunwaysOf(k) # RunwaysOf(i)
          /\ LandingTime(j) = LandingTime(i) + separation_times[i][j] * Scale
          /\ LandingTime(k) = LandingTime(i)

\* three aircraft with the same window [0, MaxTime] and target 0 on one runway,
\* with any separation matrix (asymmetric and zero separations included)
InitThreePlanes ==
    /\ num_planes = 3
    /\ planes_data = IdenticalPlanes(3, 0, 0, MaxTime, 1, 1)
    /\ separation_times \in SeparationMatrices(3)
    /\ num_runways = 1
    /\ ModelNotBuilt
    /\ DataRead

NextThreePlanes ==
    \/ CP_MIP_create_cp_model_single_runway
    \/ CP_create_cp_model_single_runway
    \/ Solve

SpecThreePlanes == InitThreePlanes /\ [][NextThreePlanes]_vars

\* the landing-time vectors of a set of solutions
LandingTimes(S) == {[i \in Planes |-> a[landing_time(i)]] : a \in S}
\* the solutions of the reified permutation model and of the big-M model that
\* the two single-runway builders make for the problem
ReifiedSolutions == Solutions(CP_SingleRunwayVariables, CP_SingleRunwayConstraints)
BigMSolutions == Solutions(SingleRunwayVariables(TRUE), SingleRunwayConstraints)

(* C17 (as stated): for every valid single-runway instance with non-negative   *)
(* separations, the landing-time vectors of the solutions of the reified       *)
(* permutation model (CP.py) are those of the 0/1 solutions of the big-M model *)
(* (CP_MIP.py), and the two models have the same optimal objective.            *)
C17_ReifiedEqualsBigM ==
    (pc = "built" /\ builder \in SingleRunway /\ ValidInstance) =>
        \A A \in {ReifiedSolutions} : \A B \in {BigMSolutions} :
            /\ LandingTimes(A) = LandingTimes(B)
            /\ A # {} => BestObjective(A, objective) = BestObjective(B, objective)

\* the builders whose order, same-runway and runway variables are NumVar(0, 1)
Relaxed ==
    {"MIP.create_mip_model_single_runway", "MIP.create_mip_model_multiple_runways",
     "ALS.MIP.create_mip_solver"}
\* what the exact builder (boolean variables) makes for the problem of the
\* relaxed builder that built the model
ExactVariables ==
    IF builder \in SingleRunway THEN SingleRunwayVariables(TRUE)
    ELSE MultipleRunwaysVariables(TRUE)
ExactConstraints ==
    IF builder \in SingleRunway THEN SingleRunwayConstraints
    ELSE MultipleRunwaysConstraints

(* C18: for the same instance the relaxed builder posts the same constraints   *)
(* as the exact big-M builder, every solution of the exact model is a solution *)
(* of the relaxed model, and the relaxed optimal objective does not exceed the *)
(* exact optimal objective.                                                    *)
C18_RelaxationIsLowerBound ==
    (pc = "built" /\ builder \in Relaxed) =>
        /\ constraints = ExactConstraints
        /\ objective = TotalPenalty
        /\ \A R \in {Solutions(variables, constraints)} :
              \A E \in {Solutions(ExactVariables, ExactConstraints)} :
                  /\ E \subseteq R
                  /\ E # {} => BestObjective(R, objective) <= BestObjective(E, objective)

\* a relaxed model whose optimum is strictly below the optimum of the exact one
C18_Witness ==
    /\ pc = "built" /\ builder \in Relaxed
    /\ \E R \in {Solutions(variables, constraints)} :
          \E E \in {Solutions(ExactVariables, ExactConstraints)} :
              /\ E # {}
              /\ BestObjective(R, objective) < BestObjective(E, objective)


\* the outcome lines an entry point can print for a backend status
ReportsOf(st) == {r.report : r \in Reports(builder, st)}
\* the line that says only that no optimal solution was found
NoOptimalSolution == {<<"No optimal solution found.">>, <<"-> No optimal solution found.">>}

\* C19: every solve entry point reports the backend outcomes distinguishably:
\* what it prints for Optimal it never prints for Feasible, and what it prints
\* for Unknown it never prints for Infeasible, nor is it the bare line
\* "No optimal solution found."
C19_OutcomesDistinguishable ==
    pc = "solved" =>
        /\ status = "OPTIMAL" => report \notin ReportsOf("FEASIBLE")
        /\ status = "FEASIBLE" => report \notin ReportsOf("OPTIMAL")
        /\ status = "INFEASIBLE" => report \notin ReportsOf("UNKNOWN")
        /\ status = "UNKNOWN" => /\ report \notin ReportsOf("INFEASIBLE")
                                 /\ report \notin NoOptimalSolution


\* C20: an invocation of a solve entry point calls the backend's solve exactly
\* once, reads variable values only when the status is Optimal or Feasible,
\* and on Infeasible or Unknown returns normally, no value read or reported
C20_SolveOnceReadOnSuccessOnly ==
    /\ solve_calls = (IF pc = "solved" THEN 1 ELSE 0)
    /\ values_read => status \in {"OPTIMAL", "FEASIBLE"}
    /\ (pc = "solved" /\ status \in {"INFEASIBLE", "UNKNOWN"}) =>
           /\ outcome = "returned"
           /\ ~values_read
           /\ solution = NoSolution


\* C21: in every solution of every builder each aircraft lands inside its
\* window, earliest_i <= landing_time_i <= latest_i, also in the permutation
\* builders, whose landing_time variable has the domain [0, LandingTimeHorizon]
C21_LandingTimeInWindow ==
    HasSolution =>
        \A i \in Planes : /\ earliest(i) * Scale <= LandingTime(i)
                          /\ LandingTime(i) <= latest(i) * Scale

\* a permutation builder's solution for a window that starts after time 0 and
\* is more than one instant wide
C21_Witness ==
    /\ HasSolution
    /\ builder \in Permutation
    /\ \E i \in Planes : /\ 0 < earliest(i)
                         /\ earliest(i) < latest(i)
                         /\ LandingTime(i) = latest(i) * Scale


\* what a builder returns: variables, constraints, objective and the W, V, U lists
BuiltModel(vs, cs, w, v, u) == <<vs, cs, TotalPenalty, w, v, u>>
\* the model that builder b makes from the instance as it is now
Rebuilt(b) ==
    CASE b = "CP_MIP.create_cp_model_single_runway" ->
             BuiltModel(SingleRunwayVariables(TRUE), SingleRunwayConstraints,
                        WPairs, VPairs, UPairs)
      [] b = "CP_MIP.create_cp_model_multiple_runways" ->
             BuiltModel(MultipleRunwaysVariables(TRUE), MultipleRunwaysConstraints,
                        WPairs, VPairs, UPairs)
      [] b = "MIP.create_mip_model_single_runway" ->
             BuiltModel(SingleRunwayVariables(FALSE), SingleRunwayConstraints,
                        WPairs, VPairs, UPairs)
      [] b \in {"MIP.create_mip_model_multiple_runways", "ALS.MIP.create_mip_solver"} ->
             BuiltModel(MultipleRunwaysVariables(FALSE), MultipleRunwaysConstraints,
                        WPairs, VPairs, UPairs)
      [] b = "CP.create_cp_model_single_runway" ->
             BuiltModel(CP_SingleRunwayVariables, CP_SingleRunwayConstraints,
                        <<>>, <<>>, <<>>)
      [] b = "CP.create_cp_model_multiple_runways" ->
             BuiltModel(CP_MultipleRunwaysVariables, CP_MultipleRunwaysConstraints,
                        <<>>, <<>>, <<>>)
\* the model the program holds
StoredModel ==
    <<variables, constraints, objective, certain_with_separation_pairs,
      certain_with_no_separation_pairs, uncertain_pairs>>

CertainWithSeparation(latest_i, earliest_j, separation_ij) ==
    latest_i < earliest_j /\ latest_i + separation_ij <= earliest_j
CertainWithNoSeparation(latest_i, earliest_j, separation_ij) ==
    latest_i < earliest_j /\ latest_i + separation_ij > earliest_j
Uncertain(earliest_i, latest_i, earliest_j, latest_j) ==
    \/ (earliest_j <= earliest_i /\ earliest_i <= latest_j)
    \/ (earliest_j <= latest_i /\ latest_i <= latest_j)
    \/ (earliest_i <= earliest_j /\ earliest_j <= latest_i)
    \/ (earliest_i <= latest_j /\ latest_j <= latest_i)
TestsPassed(earliest_i, latest_i, earliest_j, latest_j, separation_ij) ==
    (IF CertainWithSeparation(latest_i, earliest_j, separation_ij) THEN 1 ELSE 0)
    + (IF CertainWithNoSeparation(latest_i, earliest_j, separation_ij) THEN 1 ELSE 0)
    + (IF Uncertain(earliest_i, latest_i, earliest_j, latest_j) THEN 1 ELSE 0)
SameWindow(i, j) == earliest(i) = earliest(j) /\ latest(i) = latest(j)
EmptyWindow(i) == earliest(i) > latest(i)

(* C23 (as stated): there is a window that, given to both aircraft of an    *)
(* ordered pair of the instance, makes the pair pass more than one of the   *)
(* tests of W, V and U.                                                     *)
C23_IdenticalWindowsInSeveralSets ==
    \E i, j \in Planes :
        /\ i # j
        /\ \E e \in Times : \E l \in Times :
              TestsPassed(e, l, e, l, separation_times[i][j]) > 1

\* C23 (amended): a pair of aircraft with identical windows is in exactly one
\* set, U when the window is not empty and W or V when it is; a pair is in more
\* than one set only when one of its two windows is empty
C23_IdenticalWindowsInOneSet ==
    (pc = "built" /\ builder \in BigM) =>
        \A i, j \in Planes : i # j =>
            /\ SetsHolding(i, j) = TestsPassed(earliest(i), latest(i), earliest(j),
                                              latest(j), separation_times[i][j])
            /\ SameWindow(i, j) => /\ SetsHolding(i, j) = 1
                                   /\ InUSet(i, j) <=> ~EmptyWindow(i)
            /\ SetsHolding(i, j) > 1 => (EmptyWindow(i) \/ EmptyWindow(j))

\* two aircraft with the same window of more than one instant, both orders in U
C23_Witness ==
    /\ pc = "built"
    /\ builder \in BigM
    /\ \E i, j \in Planes : /\ i # j
                           /\ SameWindow(i, j)
                           /\ earliest(i) < latest(i)
                           /\ InUSet(i, j) /\ InUSet(j, i)
                           /\ ~InWSet(i, j) /\ ~InVSet(i, j)


(* ============================ read_data ================================ *)
\* a field of a line: text that int() accepts, text that only float()
\* accepts, or text that neither accepts
IntField(v) == [kind |-> "int", val |-> v]
FloatField(v) == [kind |-> "float", val |-> v]
WordField == [kind |-> "word", val |-> 0]
IntOk(tok) == tok.kind = "int"
FloatOk(tok) == tok.kind \in {"int", "float"}

MaxLines == 6
\* the lines a file is made of (each the result of strip().split()): the
\* headers "1 0" and "2 0", an aircraft line, a blank line, a line with one
\* integer and a line with a non-numeric field
FileLines ==
    { <<IntField(1), IntField(0)>>, <<IntField(2), IntField(0)>>,
      <<IntField(0), IntField(0), IntField(1), IntField(2), FloatField(1), FloatField(1)>>,
      <<>>, <<IntField(0)>>, <<WordField>> }
NoFile == <<"no such file">>
SeqsUpTo(S, n) == UNION {[1..k -> S] : k \in 0..n}
Files == {NoFile} \cup SeqsUpTo(FileLines, MaxLines)

None == "None"
\* Python lists, indexed from 0
Length(list) == Cardinality(DOMAIN list)
ListAppend(list, x) == list @@ (Length(list) :> x)
ListExtend(list, xs) ==
    [k \in 0..(Length(list) + Len(xs) - 1) |->
        IF k < Length(list) THEN list[k] ELSE xs[k - Length(list) + 1]]

\* f.readline().strip().split(): the next line, or no field at the end of file
NextLine == IF offset < Len(f) THEN f[offset + 1] ELSE <<>>
Advance == IF offset < Len(f) THEN offset + 1 ELSE offset

\* the call begins: no model, no data, the file not yet opened
InitReadData ==
    /\ f \in Files
    /\ offset = 0
    /\ rpc = "open"
    /\ separation_row = <<>>
    /\ returned = <<>>
    /\ num_planes = 0
    /\ planes_data = <<>>
    /\ separation_times = <<>>
    /\ num_runways = 1
    /\ ModelNotBuilt

Solver == <<num_runways, pc, builder, variables, constraints, objective,
            certain_with_separation_pairs, certain_with_no_separation_pairs,
            uncertain_pairs, status, solution, solve_calls, report, values_read,
            outcome>>

\* an exception leaves the function: the two handlers return four None,
\* any other exception reaches the caller
Raise(exception) ==
    /\ IF exception \in {"FileNotFoundError", "ValueError"}
       THEN rpc' = "returned" /\ returned' = <<None, None, None, None>>
       ELSE rpc' = "raised" /\ returned' = <<exception>>
    /\ UNCHANGED <<num_planes, planes_data, separation_times, separation_row, Solver>>

\* with open(filename, "r") as f
Open ==
    /\ rpc = "open"
    /\ IF f = NoFile
       THEN Raise("FileNotFoundError") /\ UNCHANGED <<f, offset>>
       ELSE /\ rpc' = "first_line"
            /\ UNCHANGED <<f, offset, num_planes, planes_data, separation_times,
                           separation_row, returned, Solver>>

\* first_line = ...; num_planes = int(first_line[0]); _ = int(first_line[1])
ReadFirstLine ==
    /\ rpc = "first_line"
    /\ offset' = Advance
    /\ UNCHANGED f
    /\ \E first_line \in {NextLine} :
          IF Len(first_line) < 1 THEN Raise("IndexError")
          ELSE IF ~IntOk(first_line[1]) THEN Raise("ValueError")
          ELSE IF Len(first_line) < 2 THEN Raise("IndexError")
          ELSE IF ~IntOk(first_line[2]) THEN Raise("ValueError")
          ELSE /\ num_planes' = first_line[1].val
               /\ rpc' = "for"
               /\ UNCHANGED <<planes_data, separation_times, separation_row,
                              returned, Solver>>

\* the exception that reading the six fields of an aircraft line raises, if any
RECURSIVE FieldError(_, _)
FieldError(line, k) ==
    IF k > 6 THEN "none"
    ELSE IF Len(line) < k THEN "IndexError"
    ELSE IF ~(IF k <= 4 THEN IntOk(line[k]) ELSE FloatOk(line[k])) THEN "ValueError"
    ELSE FieldError(line, k + 1)

\* for _ in range(num_planes): the aircraft line and planes_data.append
ReadPlane ==
    /\ rpc = "for"
    /\ Length(planes_data) < num_planes
    /\ offset' = Advance
    /\ UNCHANGED f
    /\ \E line \in {NextLine} :
          IF FieldError(line, 1) # "none" THEN Raise(FieldError(line, 1))
          ELSE /\ planes_data' = ListAppend(planes_data,
                     [appearance_time |-> line[1].val,
                      earliest_landing_time |-> line[2].val,
                      target_landing_time |-> line[3].val,
                      latest_landing_time |-> line[4].val,
                      penalty_early |-> line[5].val,
                      penalty_late |-> line[6].val])
               /\ separation_row' = <<>>
               /\ rpc' = "while"
               /\ UNCHANGED <<num_planes, separation_times, returned, Solver>>

\* while len(separation_row) < num_planes: one more line is read and all of
\* its integers are added to the row
ReadRowLine ==
    /\ rpc = "while"
    /\ Length(separation_row) < num_planes
    /\ offset' = Advance
    /\ UNCHANGED f
    /\ \E line \in {NextLine} :
          IF \E k \in DOMAIN line : ~IntOk(line[k]) THEN Raise("ValueError")
          ELSE /\ separation_row' =
                     ListExtend(separation_row, [k \in DOMAIN line |-> line[k].val])
               /\ UNCHANGED <<rpc, num_planes, planes_data, separation_times,
                              returned, Solver>>

\* the while loop ends: separation_times.append(separation_row)
RowCollected ==
    /\ rpc = "while"
    /\ Length(separation_row) >= num_planes
    /\ separation_times' = ListAppend(separation_times, separation_row)
    /\ rpc' = "for"
    /\ UNCHANGED <<f, offset, num_planes, planes_data, separation_row, returned, Solver>>

\* the for loop ends: return num_planes, planes_data, separation_times
Return ==
    /\ rpc = "for"
    /\ Length(planes_data) >= num_planes
    /\ returned' = <<num_planes, planes_data, separation_times>>
    /\ rpc' = "returned"
    /\ UNCHANGED <<f, offset, num_planes, planes_data, separation_times,
                   separation_row, Solver>>

NextReadData ==
    \/ Open
    \/ ReadFirstLine
    \/ ReadPlane
    \/ ReadRowLine
    \/ RowCollected
    \/ Return

\* the interpreter keeps executing the function while it has a next step
SpecReadData == InitReadData /\ [][NextReadData]_vars /\ WF_vars(NextReadData)

Terminated == rpc \in {"returned", "raised"}
Succeeded == rpc = "returned" /\ Len(returned) = 3


\* C24: when read_data returns the data, separation_times has one row per
\* aircraft and every row holds exactly num_planes integers, however the
\* integers of the row are spread over the lines of the file
C24_RowsOfExactlyN ==
    Succeeded =>
        /\ Length(separation_times) = num_planes
        /\ \A i \in DOMAIN separation_times : Length(separation_times[i]) = num_planes

\* C29: read_data terminates (returns or raises) on every input file
C29_ReadDataTerminates == <>Terminated

\* C30: read_data ends on every path by returning a tuple of three elements
C30_ReturnsThreeElements ==
    Terminated => (rpc = "returned" /\ Len(returned) = 3)


\* C25: in every solution of the permutation multi-runway model the positions
\* are the landing order: position[i] < position[j] implies
\* landing_time[i] <= landing_time[j], on the same runway or not
C25_PositionIsLandingOrder ==
    (HasSolution /\ builder = "CP.create_cp_model_multiple_runways") =>
        \A i, j \in Planes :
            solution[position(i)] < solution[position(j)] => LandingTime(i) <= LandingTime(j)


\* C26: for a valid instance, in every solution of a big-M builder with 0/1
\* order variables, landing_order[(i, j)] = 1 implies that i lands no later
\* than j, for every ordered pair, on the same runway or not
C26_OrderAgreesWithTimes ==
    (HasSolution /\ builder \in BigM /\ ValidInstance /\ OrderIntegral) =>
        \A i, j \in Planes :
            (i # j /\ Order(i, j) = One) => LandingTime(i) <= LandingTime(j)

\* an uncertain pair on two different runways, i ordered first and landing
\* strictly first
C26_Witness ==
    /\ HasSolution /\ builder \in BigMMultiple /\ ValidInstance
    /\ OrderIntegral /\ RunwayIntegral
    /\ \E i, j \in Planes : /\ i # j
                           /\ InUSet(i, j)
                           /\ ~OnSameRunway(i, j)
                           /\ Order(i, j) = One
                           /\ LandingTime(i) < LandingTime(j)


\* schedules: a landing time inside its window and a runway for every aircraft
TimeChoices ==
    {t \in [Planes -> UNION {Window(i) : i \in Planes}] : \A i \in Planes : t[i] \in Window(i)}
RunwayChoices ==
    IF builder \in BigMMultiple THEN [Planes -> Runways] ELSE {[i \in Planes |-> 0]}
\* each two aircraft on the same runway are separated in one of the two orders
Separated(t, r) ==
    \A i, j \in Planes : (i # j /\ r[i] = r[j]) =>
        \/ t[j] >= t[i] + separation_times[i][j] * Scale
        \/ t[i] >= t[j] + separation_times[j][i] * Scale
\* the schedule that a 0/1 solution a of a big-M model describes
ScheduleOf(a) ==
    << [i \in Planes |-> a[landing_time(i)]],
       [i \in Planes |-> IF builder \in BigMMultiple
                         THEN CHOOSE r \in Runways : a[landing_runway(i, r)] = One
                         ELSE 0] >>

\* C27: for a valid instance, every schedule (times inside the windows, one
\* runway per aircraft) in which each two aircraft on the same runway are
\* separated in one of the two orders is the schedule of some 0/1 solution of
\* the big-M model
C27_NoValidScheduleExcluded ==
    (pc = "built" /\ builder \in BigM /\ ValidInstance) =>
        \A P \in {{ScheduleOf(a) : a \in IntegralSolutions}} :
            \A t \in TimeChoices : \A r \in RunwayChoices :
                Separated(t, r) => <<t, r>> \in P

\* two runways, a pair that needs a positive separation: some schedule puts the
\* two aircraft on one runway separated, some schedule is not separated
C27_Witness ==
    /\ pc = "built" /\ builder \in BigMMultiple /\ ValidInstance
    /\ num_planes = 2 /\ num_runways = 2
    /\ separation_times[0][1] > 0 /\ separation_times[1][0] > 0
    /\ \E t \in TimeChoices : \E r \in RunwayChoices :
          r[0] = r[1] /\ t[0] # t[1] /\ Separated(t, r)
    /\ \E t \in TimeChoices : \E r \in RunwayChoices : ~Separated(t, r)
    /\ \E t \in TimeChoices : \E r \in RunwayChoices : r[0] # r[1] /\ t[0] = t[1]


NonEmptyWindows == \A i \in Planes : earliest(i) <= latest(i)
\* the constraints posted for the ordered pair (i, j) by the classification
\* loops: the fixed order (6) and the separations (7), (8), (11)
ClassConstraints(i, j) ==
    Posted(LAMBDA c : c.at = <<i, j>> /\ c.eq \in {"(6)", "(7)", "(8)", "(11)"})
\* the constraints other than order totality (2) in which landing_order[(i, j)] occurs
OrderUses(i, j) ==
    Posted(LAMBDA c : landing_order(i, j) \in VarsOf(c) /\ c.eq # "(2)")
\* both directions of the pair are uncertain and in no other set
BothUncertain(i, j) ==
    /\ InUSet(i, j) /\ InUSet(j, i)
    /\ ~InWSet(i, j) /\ ~InVSet(i, j) /\ ~InWSet(j, i) /\ ~InVSet(j, i)
\* (i, j) is in W or in V, not both, not in U; (j, i) is in no set and has no
\* constraint of its own
OneDirection(i, j) ==
    /\ InWSet(i, j) # InVSet(i, j)
    /\ ~InUSet(i, j)
    /\ SetsHolding(j, i) = 0
    /\ ClassConstraints(j, i) = {}
    /\ OrderUses(j, i) = {}
    /\ ClassConstraints(i, j) # {}

\* C28: when no window is empty, each pair of aircraft is either uncertain in
\* both directions (and in neither W nor V), or classified in exactly one
\* direction, in W or in V, with the opposite direction in no set and without
\* a constraint of its own besides order totality
C28_PairsClassifiedOnceOrBothUncertain ==
    (pc = "built" /\ builder \in BigM /\ NonEmptyWindows) =>
        \A i, j \in Planes : i < j =>
            /\ BothUncertain(i, j) \/ OneDirection(i, j) \/ OneDirection(j, i)
            /\ ~(OneDirection(i, j) /\ OneDirection(j, i))
            /\ BothUncertain(i, j) => ~(OneDirection(i, j) \/ OneDirection(j, i))

\* the later aircraft in the list has the earlier window: (1, 0) is in V and
\* (0, 1) is the direction left out
C28_Witness ==
    /\ pc = "built" /\ builder \in BigM /\ NonEmptyWindows
    /\ num_planes = 2
    /\ InVSet(1, 0)
    /\ OneDirection(1, 0)
    /\ earliest(1) < latest(1)

====
